---- MODULE Spec2Model ----
(***************************************************************************)
(* The batch-transform composer of the YOLO-family detectors              *)
(* (YOLOv3._compose_batch_transform and the textually identical           *)
(* PPYOLO._compose_batch_transform of dygraph/paddlex/det.py).            *)
(*                                                                         *)
(* Python objects live in a heap of references, so that aliasing and      *)
(* copy.deepcopy are distinguishable.  The caller owns the operators of   *)
(* transforms.transforms; the composer allocates the default operators,   *)
(* the copies of accepted resize operators and the BatchCompose result.   *)
(***************************************************************************)
EXTENDS Integers, Sequences, FiniteSets, TLC

\* Longest transforms.transforms list the caller passes.
MaxLen == 2

Modes == {"train", "eval", "predict"}
Metrics == {"voc", "coco", "other"}

(***************************************************************************)
(* Transform operators (constructors store their arguments).               *)
(***************************************************************************)
BatchRandomResize(target_sizes, interp) ==
    [kind |-> "BatchRandomResize", target_sizes |-> target_sizes, interp |-> interp]

BatchRandomResizeByShort(target_short_sizes, max_size, interp) ==
    [kind |-> "BatchRandomResizeByShort", target_short_sizes |-> target_short_sizes,
     max_size |-> max_size, interp |-> interp]

BatchPadding(pad_to_stride) ==
    [kind |-> "_BatchPadding", pad_to_stride |-> pad_to_stride]

NormalizeBox == [kind |-> "_NormalizeBox"]

PadBox(num_max_boxes) == [kind |-> "_PadBox", num_max_boxes |-> num_max_boxes]

BboxXYXY2XYWH == [kind |-> "_BboxXYXY2XYWH"]

Gt2YoloTarget(anchor_masks, anchors, downsample_ratios, num_classes) ==
    [kind |-> "_Gt2YoloTarget", anchor_masks |-> anchor_masks, anchors |-> anchors,
     downsample_ratios |-> downsample_ratios, num_classes |-> num_classes]

BatchCompose(batch_transforms, collate_batch) ==
    [kind |-> "BatchCompose", batch_transforms |-> batch_transforms,
     collate_batch |-> collate_batch]

\* isinstance(op, (BatchRandomResize, BatchRandomResizeByShort))
IsResizeOp(op) == op.kind \in {"BatchRandomResize", "BatchRandomResizeByShort"}

(***************************************************************************)
(* The model object (self).  An attribute the parent class did not set is *)
(* absent from the record, and getattr supplies the default.              *)
(***************************************************************************)
getattr(obj, name, default) == IF name \in DOMAIN obj THEN obj[name] ELSE default

DefaultAnchors ==
    << <<10, 13>>, <<16, 30>>, <<33, 23>>, <<30, 61>>, <<62, 45>>,
       <<59, 119>>, <<116, 90>>, <<156, 198>>, <<373, 326>> >>

DefaultAnchorMasks == << <<6, 7, 8>>, <<3, 4, 5>>, <<0, 1, 2>> >>

DefaultDownsampleRatios == <<32, 16, 8>>

DefaultNumMaxBoxes == 50

TwoHeadAnchorMasks == << <<3, 4, 5>>, <<0, 1, 2>> >>

\* Models as constructed: the default one, one built with two-head
\* anchor_masks, and one whose parent class set downsample_ratios and
\* num_max_boxes.
SelfShapes ==
    { [num_classes |-> 80, anchors |-> DefaultAnchors,
       anchor_masks |-> DefaultAnchorMasks,
       train_random_shapes |-> <<320, 416, 512>>],
      [num_classes |-> 80, anchors |-> DefaultAnchors,
       anchor_masks |-> TwoHeadAnchorMasks,
       train_random_shapes |-> <<320, 416, 512>>],
      [num_classes |-> 20, anchors |-> DefaultAnchors,
       anchor_masks |-> TwoHeadAnchorMasks,
       train_random_shapes |-> <<320, 416, 512>>,
       downsample_ratios |-> <<32, 16>>, num_max_boxes |-> 100] }

WithMetric(s, m) ==
    [n \in DOMAIN s \cup {"metric"} |-> IF n = "metric" THEN m ELSE s[n]]

Selves == { WithMetric(s, m) : s \in SelfShapes, m \in Metrics }

(***************************************************************************)
(* Heap.                                                                    *)
(***************************************************************************)
\* References of the operators the caller owns.
CallerRefs == {1, 2, 3}

\* One call allocates at most MaxLen copies and six default operators.
Refs == 1 .. (Cardinality(CallerRefs) + MaxLen + 6)

NoObj == [kind |-> "free"]

None == [kind |-> "None"]

\* The caller's operators as first constructed.
CallerOp(r) ==
    CASE r % 3 = 1 -> BatchRandomResize(<<256, 288>>, "RANDOM")
      [] r % 3 = 2 -> BatchRandomResizeByShort(<<800>>, 1333, "RANDOM")
      [] OTHER     -> BatchPadding(32)

\* What the caller may assign to an operator's attributes later on.
CallerAssignable(op) ==
    CASE op.kind = "BatchRandomResize" ->
            { BatchRandomResize(s, op.interp) : s \in {<<256, 288>>, <<320, 416, 512>>} }
      [] op.kind = "BatchRandomResizeByShort" ->
            { BatchRandomResizeByShort(s, op.max_size, op.interp) : s \in {<<800>>, <<600>>} }
      [] OTHER -> {op}

InitHeap == [r \in Refs |-> IF r \in CallerRefs THEN CallerOp(r) ELSE NoObj]

\* The lowest free reference.
NewRef(h) == CHOOSE r \in Refs : h[r] = NoObj /\ \A q \in Refs : q < r => h[q] # NoObj

\* The objects a list of references points to.
Deref(h, refs) == [k \in 1 .. Len(refs) |-> h[refs[k]]]

\* Allocate the objects of `objs`, in order; the new heap and their references.
RECURSIVE AllocAll(_, _)
AllocAll(h, objs) ==
    IF objs = << >> THEN [heap |-> h, refs |-> << >>]
    ELSE LET r == NewRef(h)
             rest == AllocAll([h EXCEPT ![r] = Head(objs)], Tail(objs))
         IN [heap |-> rest.heap, refs |-> <<r>> \o rest.refs]

\* Objects of an earlier call's pipeline are dropped when a new call starts.
CallerHeap(h) == [r \in Refs |-> IF r \in CallerRefs THEN h[r] ELSE NoObj]

\* list.insert(0, x)
Insert0(list, x) == <<x>> \o list

\* The lists a caller can pass as transforms.transforms: its operators, each
\* at most once, in any order.
TransformLists ==
    { ts \in UNION { [1 .. n -> CallerRefs] : n \in 0 .. MaxLen } :
        \A j, k \in 1 .. Len(ts) : j # k => ts[j] # ts[k] }

(***************************************************************************)
(* State.                                                                   *)
(***************************************************************************)
VARIABLES
    self,                     \* the model object (its attributes)
    heap,                     \* reference -> operator object
    transforms,               \* transforms.transforms of the current call
    mode,                     \* the mode argument of the current call
    pc,                       \* "idle", "loop", "returned" or "raised"
    i,                        \* loop index into transforms
    default_batch_transforms,
    custom_batch_transforms,
    collate_batch,
    random_shape_defined,
    batch_transforms,         \* the returned BatchCompose, or None
    raised,                   \* the raised exception, or None
    args_at_call,             \* the operators of transforms when the call began
    outcome,                  \* the result as it was when the call ended
    prev                      \* an earlier completed call: mode, arguments, outcome

(***************************************************************************)
(* _compose_batch_transform, piece by piece.                               *)
(***************************************************************************)
\* Variant: the attributes of the model are ignored and the defaults used.
DefaultBatchTransformsHardcoded(obj, m) ==
    IF m = "train"
    THEN << BatchPadding(-1), NormalizeBox, PadBox(DefaultNumMaxBoxes), BboxXYXY2XYWH,
            Gt2YoloTarget(DefaultAnchorMasks, DefaultAnchors,
                          DefaultDownsampleRatios, obj.num_classes) >>
    ELSE << BatchPadding(-1) >>

\* The default operators of a mode, before any resize is inserted.
DefaultBatchTransforms(obj, m) ==
    IF m = "train"
    THEN << BatchPadding(-1), NormalizeBox,
            PadBox(getattr(obj, "num_max_boxes", DefaultNumMaxBoxes)),
            BboxXYXY2XYWH,
            Gt2YoloTarget(obj.anchor_masks, obj.anchors,
                          getattr(obj, "downsample_ratios", DefaultDownsampleRatios),
                          obj.num_classes) >>
    ELSE << BatchPadding(-1) >>

\* Variant: the mode is not looked at.
CollateBatchAnyMode(m, obj) == ~(obj.metric = "voc")

CollateBatch(m, obj) == ~(m = "eval" /\ obj.metric = "voc")

\* Variant: the flag is kept from the call before (a flag that outlives
\* the call).
EntryLocalsStaleFlag ==
    [custom_batch_transforms |-> << >>, random_shape_defined |-> random_shape_defined]

\* custom_batch_transforms and random_shape_defined on entry to the loop.
EntryLocals == [custom_batch_transforms |-> << >>, random_shape_defined |-> FALSE]

\* Variant: only eval is checked.
ResizeForbiddenEvalOnly(m) == m = "eval"

\* A resize operator outside training is rejected.
ResizeForbidden(m) == m # "train"

ResizeError(op, m) == [kind |-> "Exception", op |-> op.kind, mode |-> m]

\* Variant: the operator itself is used, not a copy.
NoCopy(h, r) == [heap |-> h, ref |-> r]

\* copy.deepcopy(op): a new object with the same attributes.
deepcopy(h, r) ==
    LET n == NewRef(h) IN [heap |-> [h EXCEPT ![n] = h[r]], ref |-> n]

\* Variant: the default resize is inserted whatever the loop found.
InsertDefaultResizeAlways(m, defined) == TRUE

\* Whether the default resize is inserted after the loop: the test is on the
\* flag alone, the mode is not looked at.
InsertDefaultResize(m, defined) == ~defined

DefaultResize(obj) == BatchRandomResize(obj.train_random_shapes, "RANDOM")

\* Variant: the copied operators are left out of the result.
FinalTransformsDefaultsOnly(custom, default) == default

\* Variant: the defaults come first.
FinalTransformsDefaultsFirst(custom, default) == default \o custom

\* custom_batch_transforms + default_batch_transforms
FinalTransforms(custom, default) == custom \o default

vars == << self, heap, transforms, mode, pc, i, default_batch_transforms,
           custom_batch_transforms, collate_batch, random_shape_defined,
           batch_transforms, raised, args_at_call, outcome, prev >>

locals == << i, default_batch_transforms, custom_batch_transforms,
             collate_batch, random_shape_defined >>

\* The returned pipeline with its operators looked up in the heap.
Pipeline(h, bt) == BatchCompose(Deref(h, bt.batch_transforms), bt.collate_batch)

LastCall == [mode |-> mode, args |-> args_at_call, outcome |-> outcome]

Init ==
    /\ self \in Selves
    /\ heap = InitHeap
    /\ transforms = << >>
    /\ mode = "train"
    /\ pc = "idle"
    /\ i = 1
    /\ default_batch_transforms = << >>
    /\ custom_batch_transforms = << >>
    /\ collate_batch = TRUE
    /\ random_shape_defined = FALSE
    /\ batch_transforms = None
    /\ raised = None
    /\ args_at_call = << >>
    /\ outcome = None
    /\ prev = None

\* The caller invokes _compose_batch_transform(transforms, mode): the code up
\* to the loop.
Enter(m, ts) ==
    /\ pc \in {"idle", "returned", "raised"}
    /\ mode' = m
    /\ transforms' = ts
    /\ LET d == AllocAll(CallerHeap(heap), DefaultBatchTransforms(self, m))
       IN /\ heap' = d.heap
          /\ default_batch_transforms' = d.refs
    /\ collate_batch' = CollateBatch(m, self)
    /\ custom_batch_transforms' = EntryLocals.custom_batch_transforms
    /\ random_shape_defined' = EntryLocals.random_shape_defined
    /\ i' = 1
    /\ pc' = "loop"
    /\ batch_transforms' = None
    /\ raised' = None
    /\ args_at_call' = Deref(heap, ts)
    /\ outcome' = None
    /\ UNCHANGED self

Call(m, ts) == Enter(m, ts) /\ UNCHANGED prev

\* The same, with an observer keeping the call that just ended, to compare
\* it with later ones.
CallKeeping(m, ts) ==
    /\ pc # "idle"
    /\ Enter(m, ts)
    /\ prev' = LastCall

\* A loop iteration over an operator that is no resize operator.
LoopSkip ==
    /\ pc = "loop"
    /\ i <= Len(transforms)
    /\ ~IsResizeOp(heap[transforms[i]])
    /\ i' = i + 1
    /\ UNCHANGED << self, heap, transforms, mode, pc, default_batch_transforms,
                    custom_batch_transforms, collate_batch, random_shape_defined,
                    batch_transforms, raised, args_at_call, outcome, prev >>

\* A loop iteration over a resize operator outside training: the call raises.
LoopRaise ==
    /\ pc = "loop"
    /\ i <= Len(transforms)
    /\ IsResizeOp(heap[transforms[i]])
    /\ ResizeForbidden(mode)
    /\ raised' = ResizeError(heap[transforms[i]], mode)
    /\ outcome' = raised'
    /\ pc' = "raised"
    /\ UNCHANGED << self, heap, transforms, mode, locals, batch_transforms,
                    args_at_call, prev >>

\* A loop iteration over a resize operator in training: a copy goes first.
LoopAccept ==
    /\ pc = "loop"
    /\ i <= Len(transforms)
    /\ IsResizeOp(heap[transforms[i]])
    /\ ~ResizeForbidden(mode)
    /\ LET c == deepcopy(heap, transforms[i])
       IN /\ heap' = c.heap
          /\ custom_batch_transforms' = Insert0(custom_batch_transforms, c.ref)
    /\ random_shape_defined' = TRUE
    /\ i' = i + 1
    /\ UNCHANGED << self, transforms, mode, pc, default_batch_transforms,
                    collate_batch, batch_transforms, raised, args_at_call,
                    outcome, prev >>

\* The code after the loop: the default resize, BatchCompose, return.
Return ==
    /\ pc = "loop"
    /\ i > Len(transforms)
    /\ IF InsertDefaultResize(mode, random_shape_defined)
       THEN LET n == NewRef(heap)
            IN /\ heap' = [heap EXCEPT ![n] = DefaultResize(self)]
               /\ default_batch_transforms' = Insert0(default_batch_transforms, n)
       ELSE UNCHANGED << heap, default_batch_transforms >>
    /\ batch_transforms' =
           BatchCompose(FinalTransforms(custom_batch_transforms,
                                        default_batch_transforms'),
                        collate_batch)
    /\ outcome' = Pipeline(heap', batch_transforms')
    /\ pc' = "returned"
    /\ UNCHANGED << self, transforms, mode, i, custom_batch_transforms,
                    collate_batch, random_shape_defined, raised, args_at_call, prev >>

\* Between calls the caller assigns to an attribute of one of its operators.
CallerMutate(r, v) ==
    /\ pc \in {"idle", "returned", "raised"}
    /\ v # heap[r]
    /\ heap' = [heap EXCEPT ![r] = v]
    /\ UNCHANGED << self, transforms, mode, pc, locals, batch_transforms, raised,
                    args_at_call, outcome, prev >>

Next ==
    \/ \E m \in Modes, ts \in TransformLists : Call(m, ts)
    \/ LoopSkip
    \/ LoopRaise
    \/ LoopAccept
    \/ Return
    \/ \E r \in CallerRefs : \E v \in CallerAssignable(heap[r]) : CallerMutate(r, v)

Spec == Init /\ [][Next]_vars

\* Sequences of calls on unchanged operators, one earlier call kept.
NextTwice ==
    \/ \E m \in Modes, ts \in TransformLists : Call(m, ts)
    \/ \E m \in Modes, ts \in TransformLists : CallKeeping(m, ts)
    \/ LoopSkip
    \/ LoopRaise
    \/ LoopAccept
    \/ Return

SpecTwice == Init /\ [][NextTwice]_vars

(***************************************************************************)
(* Vocabulary of the properties.                                            *)
(***************************************************************************)
Completed == pc \in {"returned", "raised"}

\* Positions of the resize operators the caller passed.
ResizeArgs == { k \in 1 .. Len(args_at_call) : IsResizeOp(args_at_call[k]) }

\* The operators of the returned pipeline, as returned.
Returned == outcome.batch_transforms

ResizePositions(ops) == { k \in 1 .. Len(ops) : IsResizeOp(ops[k]) }

KindsOf(ops) == [k \in 1 .. Len(ops) |-> ops[k].kind]

CountKind(ops, kind) == Cardinality({ k \in 1 .. Len(ops) : ops[k].kind = kind })

(***************************************************************************)
(* C1: in eval and predict mode, a transforms list with a resize operator  *)
(* at any position makes the call raise (the error naming that operator's  *)
(* class and the mode) and no pipeline is returned.                        *)
(***************************************************************************)
C1_ResizeOutsideTrainRaises ==
    (Completed /\ mode # "train" /\ ResizeArgs # {}) =>
        /\ pc = "raised"
        /\ batch_transforms = None
        /\ raised.kind = "Exception"
        /\ raised.mode = mode
        /\ \E k \in ResizeArgs : raised.op = args_at_call[k].kind

\* A predict call raised over a resize operator that is not the first one.
C1_Witness ==
    /\ pc = "raised"
    /\ mode = "predict"
    /\ Len(args_at_call) >= 2
    /\ 1 \notin ResizeArgs
    /\ ResizeArgs # {}

(***************************************************************************)
(* C2: a returned pipeline has collate_batch false exactly when the mode   *)
(* is eval and the metric is voc.                                          *)
(***************************************************************************)
C2_CollateExactlyEvalVoc ==
    pc = "returned" =>
        (batch_transforms.collate_batch = FALSE <=> (mode = "eval" /\ self.metric = "voc"))

C2_Witness ==
    /\ pc = "returned"
    /\ mode = "eval"
    /\ self.metric = "voc"
    /\ batch_transforms.collate_batch = FALSE

(***************************************************************************)
(* C3: in train mode, a transforms list without a resize operator (the     *)
(* empty list among them) yields exactly six operators: the default        *)
(* BatchRandomResize over train_random_shapes with RANDOM interpolation,   *)
(* then _BatchPadding(-1), _NormalizeBox, _PadBox(num_max_boxes, or 50),   *)
(* _BboxXYXY2XYWH and _Gt2YoloTarget (downsample_ratios, or [32, 16, 8]).  *)
(***************************************************************************)
C3_TrainDefaultPipeline ==
    (pc = "returned" /\ mode = "train" /\ ResizeArgs = {}) =>
        Returned =
            << [kind |-> "BatchRandomResize",
                target_sizes |-> self.train_random_shapes, interp |-> "RANDOM"],
               [kind |-> "_BatchPadding", pad_to_stride |-> -1],
               [kind |-> "_NormalizeBox"],
               [kind |-> "_PadBox",
                num_max_boxes |-> IF "num_max_boxes" \in DOMAIN self
                                  THEN self.num_max_boxes ELSE 50],
               [kind |-> "_BboxXYXY2XYWH"],
               [kind |-> "_Gt2YoloTarget",
                anchor_masks |-> self.anchor_masks,
                anchors |-> self.anchors,
                downsample_ratios |-> IF "downsample_ratios" \in DOMAIN self
                                      THEN self.downsample_ratios ELSE <<32, 16, 8>>,
                num_classes |-> self.num_classes] >>

\* The empty list on a model that sets neither num_max_boxes nor
\* downsample_ratios.
C3_Witness ==
    /\ pc = "returned"
    /\ mode = "train"
    /\ args_at_call = << >>
    /\ "num_max_boxes" \notin DOMAIN self
    /\ Len(Returned) = 6
    /\ Returned[1].kind = "BatchRandomResize"
    /\ Returned[6].kind = "_Gt2YoloTarget"

(***************************************************************************)
(* C4: in train mode, when exactly one of the passed operators is a resize *)
(* operator R, the pipeline starts with an operator equal to R and holds   *)
(* no other resize operator (no default resize is added).                  *)
(***************************************************************************)
C4_SingleCustomResizeFirst ==
    (pc = "returned" /\ mode = "train" /\ Cardinality(ResizeArgs) = 1) =>
        /\ \A k \in ResizeArgs : Returned[1] = args_at_call[k]
        /\ ResizePositions(Returned) = {1}

\* The one resize operator was passed after another operator.
C4_Witness ==
    /\ pc = "returned"
    /\ mode = "train"
    /\ ResizeArgs = {2}
    /\ Returned[1] = args_at_call[2]

(***************************************************************************)
(* C5: in train mode every returned pipeline ends with _BatchPadding,      *)
(* _NormalizeBox, _PadBox, _BboxXYXY2XYWH, _Gt2YoloTarget in this order,   *)
(* each kind occurring once; it holds at least one resize operator and     *)
(* every resize operator stands before _BatchPadding.                      *)
(***************************************************************************)
TrainDefaultKinds ==
    << "_BatchPadding", "_NormalizeBox", "_PadBox", "_BboxXYXY2XYWH", "_Gt2YoloTarget" >>

C5_TrainOrdering ==
    (pc = "returned" /\ mode = "train") =>
        LET n == Len(Returned) IN
        /\ n >= 6
        /\ SubSeq(KindsOf(Returned), n - 4, n) = TrainDefaultKinds
        /\ \A j \in 1 .. 5 : CountKind(Returned, TrainDefaultKinds[j]) = 1
        /\ ResizePositions(Returned) # {}
        /\ \A k \in ResizePositions(Returned) : k < n - 4

\* The caller passed a resize operator and a padding operator of its own.
C5_Witness ==
    /\ pc = "returned"
    /\ mode = "train"
    /\ ResizeArgs # {}
    /\ \E k \in 1 .. Len(args_at_call) : args_at_call[k].kind = "_BatchPadding"

(***************************************************************************)
(* C6: in eval and predict mode, a transforms list without a resize        *)
(* operator yields exactly [_BatchPadding(-1)]: no resize operator is      *)
(* added outside training.                                                 *)
(***************************************************************************)
C6_NonTrainOnlyPadding ==
    (pc = "returned" /\ mode # "train" /\ ResizeArgs = {}) =>
        Returned = << [kind |-> "_BatchPadding", pad_to_stride |-> -1] >>

(***************************************************************************)
(* C7: when anchor_masks and downsample_ratios (as handed to               *)
(* _Gt2YoloTarget) differ in length, the call fails and returns no         *)
(* pipeline, in every mode and for every transforms list.                  *)
(***************************************************************************)
HeadCountMismatch ==
    Len(self.anchor_masks) #
        Len(IF "downsample_ratios" \in DOMAIN self
            THEN self.downsample_ratios ELSE <<32, 16, 8>>)

C7_HeadCountMismatchFails ==
    (Completed /\ HeadCountMismatch) => (pc = "raised" /\ batch_transforms = None)

(***************************************************************************)
(* C8: two calls on the same model with the same mode and equal transforms *)
(* lists both raise the same error or both return equal pipelines (the     *)
(* same operators with the same attributes, the same collate_batch).       *)
(***************************************************************************)
SameArguments == prev # None /\ prev.mode = mode /\ prev.args = args_at_call

C8_Deterministic ==
    (Completed /\ SameArguments) => prev.outcome = outcome

\* A train call with a resize operator, repeated after it had been kept.
C8_Witness ==
    /\ pc = "returned"
    /\ SameArguments
    /\ mode = "train"
    /\ ResizeArgs # {}
    /\ prev.outcome.kind = "BatchCompose"

(***************************************************************************)
(* C9: a call, returning or raising, changes neither the model's           *)
(* attributes, nor the transforms list, nor the caller's operators; the    *)
(* returned pipeline holds copies, so that what the caller assigns to its  *)
(* operators afterwards leaves the pipeline as it was returned.            *)
(***************************************************************************)
CallerObjects(h) == [r \in CallerRefs |-> h[r]]

ComposerStep == pc = "loop" \/ pc' = "loop"

C9_NoSideEffects ==
    /\ [][ComposerStep =>
            /\ self' = self
            /\ CallerObjects(heap') = CallerObjects(heap)
            /\ (pc = "loop" => transforms' = transforms)]_vars
    /\ [][(pc = "loop" /\ pc' # "loop") =>
            Deref(heap', transforms') = args_at_call]_vars
    /\ [](pc = "returned" => Pipeline(heap, batch_transforms) = outcome)

\* The caller has changed a resize operator whose copy is in the pipeline.
C9_Witness ==
    /\ pc = "returned"
    /\ mode = "train"
    /\ \E k \in ResizeArgs :
          /\ heap[transforms[k]] # args_at_call[k]
          /\ Returned[1] = args_at_call[k]
          /\ Pipeline(heap, batch_transforms).batch_transforms[1] = args_at_call[k]

(***************************************************************************)
(* C10: in train mode, two or more passed resize operators stand at the    *)
(* front of the pipeline in the order in which they were passed.           *)
(***************************************************************************)
C10_ResizeOrderKept ==
    (pc = "returned" /\ mode = "train" /\ Cardinality(ResizeArgs) >= 2) =>
        LET passed == SelectSeq(args_at_call, IsResizeOp)
        IN SubSeq(Returned, 1, Len(passed)) = passed

====
